---- MODULE Spec2Model ----
(***************************************************************************)
(* Podcast job orchestration of teach-gpt.                                 *)
(*                                                                         *)
(* Two pipelines are modelled, each as its own specification:              *)
(*   Spec   the listener pipeline: PodcastService.requestPodcastCreation,  *)
(*          the five event listeners and PodcastJobHelperService;          *)
(*   SpecS  the single-class pipeline: the PodcastService whose handlers   *)
(*          keep the module-level jobCompletionTracker.                    *)
(* FairSpec is Spec under weak fairness of the handlers; SpecT is the      *)
(* listener pipeline with TtsService.generateSpeech as it is written       *)
(* instead of a collaborator that returns audio or throws.                 *)
(*                                                                         *)
(* Handlers are async functions on one JavaScript thread: the code between *)
(* two awaits runs atomically, so every action below is one such stretch,  *)
(* beginning with the completion of the awaited call.  Listeners are       *)
(* registered with { async: true }, so emit() returns before a handler     *)
(* body runs: an emitted event puts the handler's pc at "queued".          *)
(* External collaborators (scraper, LLM, TTS, database) answer with a      *)
(* result or an error, chosen nondeterministically.                        *)
(***************************************************************************)
EXTENDS Integers, Sequences, FiniteSets, TLC

\* ------------------------------------------------------------------ bounds
MaxSegs == 2
MaxDbFaults == 1

\* two jobs: the smallest number with which one job's handlers can run
\* between another's and meet it in the shared maps keyed by job id
Jobs == {1, 2}
SegIdx == 0..(MaxSegs - 1)

\* ------------------------------------------------------- schema and events
PodcastStatus ==
  {"PENDING", "SCRAPING", "GENERATING_CONTENT", "GENERATING_AUDIO",
   "STITCHING", "COMPLETED", "FAILED"}

\* position of a status in the chain of podcastStatusEnum (FAILED is last)
StatusRank(s) ==
  CASE s = "PENDING" -> 0
    [] s = "SCRAPING" -> 1
    [] s = "GENERATING_CONTENT" -> 2
    [] s = "GENERATING_AUDIO" -> 3
    [] s = "STITCHING" -> 4
    [] s = "COMPLETED" -> 5
    [] OTHER -> 6

EventNames ==
  {"podcast.requested", "podcast.scraped", "podcast.content_generated",
   "podcast.segment.audio_requested", "podcast.segment.audio_generated",
   "podcast.all_audio_generated", "podcast.completed", "podcast.failed"}

\* a row of the podcasts table; status "ABSENT" stands for "no such row"
NoRow ==
  [status |-> "ABSENT", errorStep |-> "null", errorMessage |-> <<"null", 0, 0>>,
   audioUrl |-> "null", segmentCount |-> -1, hasContent |-> FALSE,
   userId |-> 0, url |-> "null", deepDiveOption |-> "null"]

\* what a client submits: the authenticated user, the url and the option
Dtos ==
  {[userId |-> 1, url |-> "a", deepDiveOption |-> "CONDENSE"],
   [userId |-> 2, url |-> "b", deepDiveOption |-> "EXPAND"]}

\* the submission that becomes job j: the first job is user 1's, the second
\* user 2's.  No handler reads the submitted values, they are only stored
\* and copied into payloads, so other pairings add no behaviour.
SubmissionOf(j) == CHOOSE dto \in Dtos : dto.userId = j

\* NewRow with the owner column left at its default
NewRowAnonymous(dto) ==
  [NoRow EXCEPT !.status = "PENDING", !.url = dto.url,
                !.deepDiveOption = dto.deepDiveOption]

\* the row INSERTed by requestPodcastCreation
NewRow(dto) ==
  [NoRow EXCEPT !.status = "PENDING", !.userId = dto.userId, !.url = dto.url,
                !.deepDiveOption = dto.deepDiveOption]

\* the payload of 'podcast.requested'; jobId 0 stands for "not published"
NoPayload == [jobId |-> 0, userId |-> 0, url |-> "null", deepDiveOption |-> "null"]

\* a requestPodcastCreation call: its arguments, how it settled and, when it
\* returned, the response { jobId, status }
NoCall ==
  [settled |-> "none", dto |-> NoPayload, jobId |-> 0, status |-> "null"]

\* ------------------------------------------------------ listener handlers
\* a handler instance is <<kind, segmentIndex>>; the index is 0 for the
\* handlers that exist once per job
HReq == <<"req", 0>>
HScr == <<"scr", 0>>
HCon == <<"con", 0>>
HAll == <<"all", 0>>
HSeg(i) == <<"seg", i>>
HandlerIds == {HReq, HScr, HCon, HAll} \cup {HSeg(i) : i \in SegIdx}

\* CurrentStep with the content listener's constant copied from the
\* requested listener
CurrentStepCopied(h) ==
  CASE h[1] = "req" -> "SCRAPING"
    [] h[1] = "scr" -> "GENERATING_CONTENT"
    [] h[1] = "con" -> "SCRAPING"
    [] h[1] = "seg" -> "GENERATING_AUDIO"
    [] OTHER -> "STITCHING"

\* CurrentStep with every listener reporting the stage before its own
CurrentStepPrevious(h) ==
  CASE h[1] = "req" -> "PENDING"
    [] h[1] = "scr" -> "SCRAPING"
    [] h[1] = "con" -> "GENERATING_CONTENT"
    [] h[1] = "seg" -> "GENERATING_CONTENT"
    [] OTHER -> "GENERATING_AUDIO"

\* the constant currentStep of each listener
CurrentStep(h) ==
  CASE h[1] = "req" -> "SCRAPING"
    [] h[1] = "scr" -> "GENERATING_CONTENT"
    [] h[1] = "con" -> "GENERATING_AUDIO"
    [] h[1] = "seg" -> "GENERATING_AUDIO"
    [] OTHER -> "STITCHING"

\* errorMessage.substring(0, 1000)
ErrorMessageLimit == 1000

\* the length of the error messages of job j: the errors caught for job 1
\* are short, those caught for job 2 are over the limit
MessageLength(j) == IF j = 1 THEN 1 ELSE ErrorMessageLimit + 1

\* the message each listener hands to failJob; the segment listener embeds
\* the segment index (`TTS generation failed for segment ${segmentIndex}`)
\* and every listener appends the caught error's message, of length len
FailMessage(h, len) == <<h[1], h[2], len>>

\* substring without the cut
substringWhole(errorMessage, end) == errorMessage

\* errorMessage.substring(0, end): the text is kept, the length is cut
substring(errorMessage, end) ==
  <<errorMessage[1], errorMessage[2],
    IF errorMessage[3] > end THEN end ELSE errorMessage[3]>>

\* what synthesis returns for segment i of job j
AudioOf(j, i) == <<j, i>>

\* ------------------------------------------------------------ TtsService
\* the second argument of generateSpeech: <<>> when the caller passes none,
\* <<o>> for an options object o
NoOptions == <<>>

\* the values of TTS_PROVIDER (lower-cased; 'openai' when unset)
ProviderNames == {"openai", "azure", "google", "elevenlabs"}

\* the voice names of the application
AppVoices == {"Ash", "Jenny"}

\* the names every object literal inherits from Object.prototype (two of
\* them): map[name] is then a function, which is truthy
ObjectPrototypeKeys == {"constructor", "toString"}

\* the values a caller may put into options.voice: a voice name, another
\* string, a name inherited from Object.prototype, or nothing
RequestedVoices == AppVoices \cup {"InvalidVoice", "undefined"} \cup ObjectPrototypeKeys

\* map[appVoice] of the three mapping methods: the voice id, "inherited"
\* for a member of Object.prototype, "undefined" for a missing key
mapVoiceToOpenAI(appVoice) ==
  CASE appVoice = "Ash" -> "onyx"
    [] appVoice = "Jenny" -> "nova"
    [] appVoice \in ObjectPrototypeKeys -> "inherited"
    [] OTHER -> "undefined"

mapVoiceToAzure(appVoice) ==
  CASE appVoice = "Ash" -> "en-US-DavisNeural"
    [] appVoice = "Jenny" -> "en-US-JennyNeural"
    [] appVoice \in ObjectPrototypeKeys -> "inherited"
    [] OTHER -> "undefined"

mapVoiceToGoogle(appVoice) ==
  CASE appVoice = "Ash" -> "en-US-Standard-D"
    [] appVoice = "Jenny" -> "en-US-Neural2-F"
    [] appVoice \in ObjectPrototypeKeys -> "inherited"
    [] OTHER -> "undefined"

\* the switch on activeProviderName; "unsupported" for the default branch
providerVoiceId(activeProviderName, voice) ==
  CASE activeProviderName = "openai" -> mapVoiceToOpenAI(voice)
    [] activeProviderName = "azure" -> mapVoiceToAzure(voice)
    [] activeProviderName = "google" -> mapVoiceToGoogle(voice)
    [] OTHER -> "unsupported"

\* whether generateSpeech gets as far as this.ttsProvider.generateSpeech:
\* the default branch and the 'if (!voiceId)' of the mapping methods throw
\* before it
callsProvider(options, activeProviderName) ==
  /\ options # NoOptions
  /\ providerVoiceId(activeProviderName, options[1].voice)
       \notin {"unsupported", "undefined"}

\* TtsService.generateSpeech(text, options), by how it settles: "audio", or
\* the error it rejects with.  Destructuring options comes first and throws
\* a TypeError when there are none; providerResult is what the provider
\* call would settle with ("audio" or "error").
generateSpeech(options, activeProviderName, providerResult) ==
  IF options = NoOptions THEN "TypeError"
  ELSE IF ~callsProvider(options, activeProviderName) THEN "TtsError"
  ELSE IF providerResult = "audio" THEN "audio"
  ELSE "TtsError"

\* the segmentSpeaker values of the payloads, as character sequences;
\* an absent label (undefined or null) has defined = FALSE
Label(chars) == [defined |-> TRUE, chars |-> chars]
NoLabel == [defined |-> FALSE, chars |-> <<>>]
SpeakerLabels ==
  {Label(<<"H", "o", "s", "t", " ", "1">>),
   Label(<<"H", "O", "S", "T", " ", "1">>),
   Label(<<"H", "o", "s", "t", " ", "2">>),
   Label(<<>>),
   NoLabel}

\* String.prototype.toLowerCase on the characters the labels use
toLowerCase(chars) ==
  [k \in 1..Len(chars) |->
     CASE chars[k] = "H" -> "h"
       [] chars[k] = "O" -> "o"
       [] chars[k] = "S" -> "s"
       [] chars[k] = "T" -> "t"
       [] OTHER -> chars[k]]

\* String.prototype.includes
includes(chars, searchString) ==
  \E k \in 1..(Len(chars) - Len(searchString) + 1) :
    SubSeq(chars, k, k + Len(searchString) - 1) = searchString

\* voiceFor with the label cast to a voice name (the commented-out
\* 'segmentSpeaker as Ash | Jenny')
voiceForCast(segmentSpeaker) ==
  IF segmentSpeaker.defined
       /\ includes(toLowerCase(segmentSpeaker.chars),
                   <<"h", "o", "s", "t", " ", "1">>)
    THEN "Ash"
    ELSE "undefined"

\* segmentSpeaker?.toLowerCase().includes('host 1') ? 'Ash' : 'Jenny'
voiceFor(segmentSpeaker) ==
  IF segmentSpeaker.defined
       /\ includes(toLowerCase(segmentSpeaker.chars),
                   <<"h", "o", "s", "t", " ", "1">>)
    THEN "Ash"
    ELSE "Jenny"

\* no synthesis call was made yet
NoTtsCall ==
  [called |-> FALSE, segmentSpeaker |-> NoLabel, voice |-> "null",
   providerResult |-> "null", settled |-> "null"]

\* ---------------------------------------------------------------- state
VARIABLES
  podcasts,          \* the podcasts table: job id -> row
  tempAudioStorage,  \* PodcastJobHelperService.tempAudioStorage
  pc,                \* job id -> handler instance -> position
  dialogue,          \* job id -> the dialogue result carried by the events
  allSegmentsComplete, \* job id -> segment -> the local of the segment handler
  finalAudioBuffer,  \* job id -> the local of the assembly handler
  emitted,           \* job id -> event name -> number of emit() calls
  requestedPayload,  \* job id -> the payload of its 'podcast.requested'
  requestCall,       \* job id -> the latest requestPodcastCreation call for it
  segmentRequests,   \* job id -> the 'podcast.segment.audio_requested'
                     \* payloads in the order they were published
  failedEvents,      \* job id -> the 'podcast.failed' payloads (jobId and
                     \* failedStep) in the order they were published
  storageNotFound,   \* job id -> the segment indices for which
                     \* storeSegmentAudio logged 'storage not found'
  generationRejected, \* job id -> whether one of its two generation
                     \* requests has rejected
  dbFaults,          \* database calls that have thrown so far
  sjobs,             \* single-class pipeline: the podcasts table
  jobCompletionTracker, \* single-class pipeline: module-level Map
  spc,               \* single-class pipeline: handler positions
  sdialogue,         \* single-class pipeline: the dialogue result
  sfiles,            \* single-class pipeline: tmp/podcast_jobs/<job>/<i>.mp3
  semitted,          \* single-class pipeline: emit() calls
  sprovider,         \* single-class pipeline: TtsService.activeProviderName,
                     \* "unset" until the first call reads it
  stts               \* single-class pipeline: job id -> segment -> the
                     \* synthesis call made for it

avars == <<requestedPayload, requestCall, segmentRequests, failedEvents,
           generationRejected, storageNotFound>>
lvars == <<podcasts, tempAudioStorage, pc, dialogue, allSegmentsComplete,
           finalAudioBuffer, emitted, requestedPayload, requestCall,
           segmentRequests, failedEvents, generationRejected,
           storageNotFound>>
tvars == <<sprovider, stts>>
svars == <<sjobs, jobCompletionTracker, spc, sdialogue, sfiles, semitted,
           sprovider, stts>>
vars == <<podcasts, tempAudioStorage, pc, dialogue, allSegmentsComplete,
          finalAudioBuffer, emitted, requestedPayload, requestCall,
          segmentRequests, failedEvents, generationRejected,
          storageNotFound, dbFaults,
          sjobs, jobCompletionTracker, spc, sdialogue, sfiles, semitted,
          sprovider, stts>>

\* ------------------------------------------------- PodcastJobHelperService
EmptyBufs == [x \in {} |-> <<>>]

NoStorage == [present |-> FALSE, total |-> 0, completed |-> {}, bufs |-> EmptyBufs]

Put(f, k, v) == [x \in (DOMAIN f) \cup {k} |-> IF x = k THEN v ELSE f[x]]

\* initializeJobStorage: overwrites whatever entry exists
initializeJobStorage(ts, jobId, totalSegments) ==
  [ts EXCEPT ![jobId] =
     [present |-> TRUE, total |-> totalSegments, completed |-> {},
      bufs |-> EmptyBufs]]

\* storeSegmentAudio starting the completed set anew when it overwrites
storeSegmentAudioRecounts(ts, jobId, segmentIndex, buffer) ==
  IF ~ts[jobId].present
    THEN ts
    ELSE [ts EXCEPT ![jobId].bufs = Put(@, segmentIndex, buffer),
                    ![jobId].completed =
                      IF segmentIndex \in @
                        THEN {segmentIndex} ELSE @ \cup {segmentIndex}]

\* storeSegmentAudio, the storage it leaves behind
storeSegmentAudio(ts, jobId, segmentIndex, buffer) ==
  IF ~ts[jobId].present
    THEN ts
    ELSE [ts EXCEPT ![jobId].bufs = Put(@, segmentIndex, buffer),
                    ![jobId].completed = @ \cup {segmentIndex}]

\* storeSegmentAudioReturns comparing the size with 1 instead of the total
storeSegmentAudioReturnsFirst(ts, jobId, segmentIndex) ==
  IF ~ts[jobId].present
    THEN FALSE
    ELSE Cardinality(ts[jobId].completed \cup {segmentIndex}) = 1

\* storeSegmentAudioReturns without the size comparison
storeSegmentAudioReturnsAlways(ts, jobId, segmentIndex) == ts[jobId].present

\* storeSegmentAudioReturns with the size read before the index is added
storeSegmentAudioReturnsStale(ts, jobId, segmentIndex) ==
  IF ~ts[jobId].present
    THEN FALSE
    ELSE Cardinality(ts[jobId].completed) = ts[jobId].total

\* storeSegmentAudioReturns comparing the size with the last index
storeSegmentAudioReturnsEarly(ts, jobId, segmentIndex) ==
  IF ~ts[jobId].present
    THEN FALSE
    ELSE Cardinality(ts[jobId].completed \cup {segmentIndex}) = ts[jobId].total - 1

\* storeSegmentAudioReturns with the guard for a missing entry answering true
storeSegmentAudioReturnsMissing(ts, jobId, segmentIndex) ==
  IF ~ts[jobId].present
    THEN TRUE
    ELSE Cardinality(ts[jobId].completed \cup {segmentIndex}) = ts[jobId].total

\* storeSegmentAudio logs 'storage not found' and returns at once
storeSegmentAudioWarns(ts, jobId) == ~ts[jobId].present

\* storeSegmentAudio, the value it returns
storeSegmentAudioReturns(ts, jobId, segmentIndex) ==
  IF ~ts[jobId].present
    THEN FALSE
    ELSE Cardinality(ts[jobId].completed \cup {segmentIndex}) = ts[jobId].total

\* retrieveThrows without the size check and the per-index check
retrieveThrowsNoEntryOnly(ts, jobId) == ~ts[jobId].present

\* retrieveJobAudioBuffers throws in these cases
retrieveThrows(ts, jobId) ==
  \/ ~ts[jobId].present
  \/ Cardinality(ts[jobId].completed) # ts[jobId].total
  \/ \E i \in 0..(ts[jobId].total - 1) : i \notin DOMAIN ts[jobId].bufs

\* retrieveJobAudioBuffers with the loop running from the last index down
retrieveJobAudioBuffersReversed(ts, jobId) ==
  [k \in 1..ts[jobId].total |-> ts[jobId].bufs[ts[jobId].total - k]]

\* retrieveJobAudioBuffers, the list it returns otherwise
retrieveJobAudioBuffers(ts, jobId) ==
  [k \in 1..ts[jobId].total |-> ts[jobId].bufs[k - 1]]

\* cleanupJobData that empties the completed set and keeps the entry
cleanupJobDataCompletedOnly(ts, jobId) ==
  [ts EXCEPT ![jobId].completed = {}]

\* cleanupJobData that deletes nothing
cleanupJobDataKeeps(ts, jobId) == ts

\* cleanupJobData emptying the whole storage object
cleanupJobDataAll(ts, jobId) == [x \in DOMAIN ts |-> NoStorage]

\* cleanupJobData
cleanupJobData(ts, jobId) == [ts EXCEPT ![jobId] = NoStorage]

\* Buffer.concat
RECURSIVE BufferConcat(_)
BufferConcat(list) ==
  IF list = <<>> THEN <<>> ELSE Head(list) \o BufferConcat(Tail(list))

\* ------------------------------------------------------------- database
\* a database call returns (TRUE) or throws (FALSE)
DbOutcomes == IF dbFaults < MaxDbFaults THEN {TRUE, FALSE} ELSE {TRUE}

DbCount(ok) == dbFaults' = IF ok THEN dbFaults ELSE dbFaults + 1

\* the UPDATE of updateJobStatus: status plus the given columns
updateJobStatus(tbl, jobId, status, data) ==
  [tbl EXCEPT ![jobId] =
     [c \in DOMAIN tbl[jobId] |->
        IF c = "status" THEN status
        ELSE IF c \in DOMAIN data THEN data[c]
        ELSE tbl[jobId][c]]]

NoData == [x \in {} |-> 0]

\* the UPDATE of failJob
failJobUpdate(tbl, jobId, failedStep, errorMessage) ==
  [tbl EXCEPT ![jobId].status = "FAILED",
              ![jobId].errorStep = failedStep,
              ![jobId].errorMessage = substring(errorMessage, ErrorMessageLimit)]

Emit(em, jobId, ev) == [em EXCEPT ![jobId][ev] = @ + 1]

\* -------------------------------------------------- getPodcastJobStatus
\* new NotFoundException(`Podcast job with ID ${jobId} not found.`)
NotFoundException(jobId) ==
  [kind |-> "NotFoundException",
   message |-> <<"Podcast job with ID ", jobId, " not found.">>]

\* what the owner check would throw if it told the caller the truth
ForbiddenException(jobId) ==
  [kind |-> "ForbiddenException",
   message |-> <<"Podcast job with ID ", jobId, " belongs to another user.">>]

\* resultOf that is also populated for a FAILED job
resultOfTerminal(job) ==
  IF job.status \in {"COMPLETED", "FAILED"}
    THEN <<[status |-> job.status, userId |-> job.userId, url |-> job.url,
            deepDiveOption |-> job.deepDiveOption,
            content |-> job.hasContent, audioUrl |-> job.audioUrl,
            jobMetadata |-> job.segmentCount]>>
    ELSE <<>>

\* response.result: <<>> for null, <<r>> for the object built from the row
\* (title, summary and transcript are the row's content columns)
resultOf(job) ==
  IF job.status = "COMPLETED"
    THEN <<[status |-> job.status, userId |-> job.userId, url |-> job.url,
            deepDiveOption |-> job.deepDiveOption,
            content |-> job.hasContent, audioUrl |-> job.audioUrl,
            jobMetadata |-> job.segmentCount]>>
    ELSE <<>>

\* getPodcastJobStatus with an owner check that answers Forbidden
getPodcastJobStatusForbidden(tbl, jobId, userId) ==
  IF jobId \notin DOMAIN tbl \/ tbl[jobId].status = "ABSENT"
    THEN NotFoundException(jobId)
  ELSE IF tbl[jobId].userId # userId
    THEN ForbiddenException(jobId)
  ELSE [kind |-> "PodcastStatusResponseDto", jobId |-> jobId,
        status |-> tbl[jobId].status,
        errorMessage |-> tbl[jobId].errorMessage,
        errorStep |-> tbl[jobId].errorStep,
        result |-> resultOf(tbl[jobId])]

\* PodcastService.getPodcastJobStatus(jobId, userId) on the table tbl, when
\* its query returns: the response, or the exception it throws
getPodcastJobStatus(tbl, jobId, userId) ==
  IF jobId \notin DOMAIN tbl \/ tbl[jobId].status = "ABSENT"
    THEN NotFoundException(jobId)
  ELSE IF tbl[jobId].userId # userId
    THEN NotFoundException(jobId)
  ELSE [kind |-> "PodcastStatusResponseDto", jobId |-> jobId,
        status |-> tbl[jobId].status,
        errorMessage |-> tbl[jobId].errorMessage,
        errorStep |-> tbl[jobId].errorStep,
        result |-> resultOf(tbl[jobId])]

\* ------------------------------------------------- single-class pipeline
\* one job: its handlers race with each other, not with another job's
SJobs == {1}

SNoRow ==
  [status |-> "ABSENT", errorStep |-> "null", errorMessage |-> <<"null", 0>>,
   hasContent |-> FALSE, totalSegments |-> -1, audioData |-> <<>>]

SNewRow == [SNoRow EXCEPT !.status = "PENDING"]

SReq == <<"req", 0>>
SScr == <<"scr", 0>>
SCon == <<"con", 0>>
SSeg(i) == <<"seg", i>>
SGen(i) == <<"gen", i>>
SHandlerIds ==
  {SReq, SScr, SCon} \cup {SSeg(i) : i \in SegIdx} \cup {SGen(i) : i \in SegIdx}

\* the errorStep literal of each handler's failure UPDATE
SErrorStep(h) ==
  CASE h[1] = "req" -> "SCRAPING"
    [] h[1] = "scr" -> "GENERATING_CONTENT"
    [] h[1] = "gen" -> "COMPLETING"
    [] OTHER -> "GENERATING_AUDIO"

\* JobCompletionState; present = FALSE stands for "no entry in the Map"
NoState == [present |-> FALSE, completedCount |-> 0, totalSegments |-> 0]

\* ------------------------------------------------------------------ Init
Init ==
  /\ podcasts = [j \in Jobs |-> NoRow]
  /\ tempAudioStorage = [j \in Jobs |-> NoStorage]
  /\ pc = [j \in Jobs |-> [h \in HandlerIds |-> "idle"]]
  /\ dialogue = [j \in Jobs |-> -2]
  /\ allSegmentsComplete = [j \in Jobs |-> [i \in SegIdx |-> "unset"]]
  /\ finalAudioBuffer = [j \in Jobs |-> <<>>]
  /\ emitted = [j \in Jobs |-> [e \in EventNames |-> 0]]
  /\ requestedPayload = [j \in Jobs |-> NoPayload]
  /\ requestCall = [j \in Jobs |-> NoCall]
  /\ segmentRequests = [j \in Jobs |-> <<>>]
  /\ failedEvents = [j \in Jobs |-> <<>>]
  /\ generationRejected = [j \in Jobs |-> FALSE]
  /\ storageNotFound = [j \in Jobs |-> {}]
  /\ dbFaults = 0
  /\ sjobs = [j \in SJobs |-> SNoRow]
  /\ jobCompletionTracker = [j \in SJobs |-> NoState]
  /\ spc = [j \in SJobs |-> [h \in SHandlerIds |-> "idle"]]
  /\ sdialogue = [j \in SJobs |-> -2]
  /\ sfiles = [j \in SJobs |-> EmptyBufs]
  /\ semitted = [j \in SJobs |-> [e \in EventNames |-> 0]]
  /\ sprovider = "unset"
  /\ stts = [j \in SJobs |-> [i \in SegIdx |-> NoTtsCall]]


\* ====================================================== listener pipeline
SetPc(j, h, v) == pc' = [pc EXCEPT ![j][h] = v]

\* PodcastService.requestPodcastCreation(url, userId, options): INSERT ...
\* RETURNING, then emit and return { jobId, status }; ids are serial.  When
\* the INSERT throws (or returns no row) the call throws.
requestPodcastCreation(j) ==
  /\ podcasts[j].status = "ABSENT"
  /\ \A k \in Jobs : k < j => podcasts[k].status # "ABSENT"
  /\ \E dto \in {SubmissionOf(j)}, ok \in DbOutcomes :
       /\ DbCount(ok)
       /\ IF ok
            THEN /\ podcasts' = [podcasts EXCEPT ![j] = NewRow(dto)]
                 /\ emitted' = Emit(emitted, j, "podcast.requested")
                 /\ requestedPayload' =
                      [requestedPayload EXCEPT ![j] =
                         [jobId |-> j, userId |-> dto.userId, url |-> dto.url,
                          deepDiveOption |-> dto.deepDiveOption]]
                 /\ requestCall' =
                      [requestCall EXCEPT ![j] =
                         [settled |-> "returned", dto |-> dto, jobId |-> j,
                          status |-> "PENDING"]]
                 /\ SetPc(j, HReq, "queued")
            ELSE /\ requestCall' =
                      [requestCall EXCEPT ![j] =
                         [settled |-> "threw", dto |-> dto, jobId |-> 0,
                          status |-> "null"]]
                 /\ UNCHANGED <<podcasts, emitted, requestedPayload, pc>>
  /\ UNCHANGED <<tempAudioStorage, dialogue, allSegmentsComplete,
                 finalAudioBuffer, segmentRequests, failedEvents,
                 generationRejected, storageNotFound>>
  /\ UNCHANGED svars

\* handlePodcastRequested with a status write whose error is only logged:
\* the handler goes on to scrapeUrl either way
handlePodcastRequestedSwallows(j) ==
  /\ pc[j][HReq] = "queued"
  /\ \E ok \in DbOutcomes :
       /\ DbCount(ok)
       /\ podcasts' = IF ok
                        THEN updateJobStatus(podcasts, j, CurrentStep(HReq), NoData)
                        ELSE podcasts
       /\ SetPc(j, HReq, "scrapeUrl")
  /\ UNCHANGED <<tempAudioStorage, dialogue, allSegmentsComplete,
                 finalAudioBuffer, emitted>>
  /\ UNCHANGED <<avars, svars>>

\* PodcastRequestedListener: updateJobStatus(SCRAPING), then scrapeUrl
handlePodcastRequested(j) ==
  /\ pc[j][HReq] = "queued"
  /\ \E ok \in DbOutcomes :
       /\ DbCount(ok)
       /\ IF ok
            THEN /\ podcasts' = updateJobStatus(podcasts, j, CurrentStep(HReq), NoData)
                 /\ SetPc(j, HReq, "scrapeUrl")
            ELSE /\ UNCHANGED podcasts
                 /\ SetPc(j, HReq, "failJob")
  /\ UNCHANGED <<tempAudioStorage, dialogue, allSegmentsComplete,
                 finalAudioBuffer, emitted>>
  /\ UNCHANGED <<avars, svars>>

\* PodcastRequestedListener: scrapeUrl returned or threw
scrapeUrlReturns(j) ==
  /\ pc[j][HReq] = "scrapeUrl"
  /\ \E r \in {"ok", "err"} :
       IF r = "ok"
         THEN /\ emitted' = Emit(emitted, j, "podcast.scraped")
              /\ pc' = [pc EXCEPT ![j][HReq] = "done", ![j][HScr] = "queued"]
         ELSE /\ UNCHANGED emitted
              /\ SetPc(j, HReq, "failJob")
  /\ UNCHANGED <<podcasts, tempAudioStorage, dialogue, allSegmentsComplete,
                 finalAudioBuffer, dbFaults>>
  /\ UNCHANGED <<avars, svars>>

\* PodcastScrapedListener: updateJobStatus(GENERATING_CONTENT), then the LLM
handlePodcastScraped(j) ==
  /\ pc[j][HScr] = "queued"
  /\ \E ok \in DbOutcomes :
       /\ DbCount(ok)
       /\ IF ok
            THEN /\ podcasts' =
                      updateJobStatus(podcasts, j, CurrentStep(HScr), NoData)
                 /\ SetPc(j, HScr, "generateJsonResponse")
            ELSE /\ UNCHANGED podcasts
                 /\ SetPc(j, HScr, "failJob")
  /\ UNCHANGED <<tempAudioStorage, dialogue, allSegmentsComplete,
                 finalAudioBuffer, emitted>>
  /\ UNCHANGED <<avars, svars>>

\* what the two generation requests settle with; the dialogue request
\* fulfils with a result of some number of segments (-1 is a result without
\* a segments field)
SummaryResults == {[settled |-> "fulfilled"], [settled |-> "rejected"]}
DialogueResults ==
  {[settled |-> "rejected", segments |-> -1]} \cup
  {[settled |-> "fulfilled", segments |-> d] : d \in (-1)..MaxSegs}

\* Promise.all waiting for the dialogue request alone
PromiseAllDialogueOnly(summaryResult, dialogueResult) ==
  dialogueResult.settled = "fulfilled"

\* Promise.all([summary, dialogue]) fulfils iff both requests fulfil
PromiseAll(summaryResult, dialogueResult) ==
  summaryResult.settled = "fulfilled" /\ dialogueResult.settled = "fulfilled"

\* PodcastScrapedListener: Promise.all of the two generation requests.
\* The dialogue result is not validated.
generateJsonResponseReturns(j) ==
  /\ pc[j][HScr] = "generateJsonResponse"
  /\ \E summaryResult \in SummaryResults, dialogueResult \in DialogueResults :
       /\ generationRejected' =
            [generationRejected EXCEPT
               ![j] = \/ summaryResult.settled = "rejected"
                      \/ dialogueResult.settled = "rejected"]
       /\ IF PromiseAll(summaryResult, dialogueResult)
            THEN /\ dialogue' = [dialogue EXCEPT ![j] = dialogueResult.segments]
                 /\ SetPc(j, HScr, "persist")
            ELSE /\ UNCHANGED dialogue
                 /\ SetPc(j, HScr, "failJob")
  /\ UNCHANGED <<podcasts, tempAudioStorage, allSegmentsComplete,
                 finalAudioBuffer, emitted, dbFaults>>
  /\ UNCHANGED <<requestedPayload, requestCall, segmentRequests,
                 failedEvents, storageNotFound>>
  /\ UNCHANGED svars

\* PodcastScrapedListener: persist title, summary, transcript, then emit
persistContent(j) ==
  /\ pc[j][HScr] = "persist"
  /\ \E ok \in DbOutcomes :
       /\ DbCount(ok)
       /\ IF ok
            THEN /\ podcasts' =
                      updateJobStatus(podcasts, j, CurrentStep(HScr),
                                      [hasContent |-> TRUE])
                 /\ emitted' = Emit(emitted, j, "podcast.content_generated")
                 /\ pc' = [pc EXCEPT ![j][HScr] = "done", ![j][HCon] = "queued"]
            ELSE /\ UNCHANGED <<podcasts, emitted>>
                 /\ SetPc(j, HScr, "failJob")
  /\ UNCHANGED <<tempAudioStorage, dialogue, allSegmentsComplete,
                 finalAudioBuffer>>
  /\ UNCHANGED <<avars, svars>>

\* const totalSegments = (dialogue?.segments ?? []).length
TotalSegments(d) == IF d < 0 THEN 0 ELSE d

\* completesEarly without the zero test
completesEarlyNever(totalSegments) == FALSE

\* if (totalSegments === 0): the early-completion branch
completesEarly(totalSegments) == totalSegments = 0

\* afterCompletedWrite when emit or cleanup throws inside the try block
afterCompletedWriteThrows(ok) == "failJob"

\* AllAudioGeneratedListener: where the handler goes from its COMPLETED write
afterCompletedWrite(ok) == IF ok THEN "done" ELSE "failJob"

\* PodcastContentGeneratedListener, totalSegments === 0: findFirst
contentGeneratedEmpty(j) ==
  /\ pc[j][HCon] = "queued"
  /\ completesEarly(TotalSegments(dialogue[j]))
  /\ \E ok \in DbOutcomes :
       /\ DbCount(ok)
       /\ SetPc(j, HCon, IF ok THEN "earlyComplete" ELSE "failJob")
  /\ UNCHANGED <<podcasts, tempAudioStorage, dialogue, allSegmentsComplete,
                 finalAudioBuffer, emitted>>
  /\ UNCHANGED <<avars, svars>>

\* PodcastContentGeneratedListener, early completion: the COMPLETED write is
\* followed by .catch, so 'podcast.completed' is emitted either way.
\* PodcastTerminalListener.handlePodcastCompleted is a synchronous listener
\* of that event: it runs cleanupJobData inside emit().
earlyComplete(j) ==
  /\ pc[j][HCon] = "earlyComplete"
  /\ \E ok \in DbOutcomes :
       /\ DbCount(ok)
       /\ podcasts' =
            IF ok
              THEN updateJobStatus(podcasts, j, "COMPLETED",
                                   [audioUrl |-> "null"])
              ELSE podcasts
       /\ SetPc(j, HCon, IF ok THEN "done" ELSE "doneNoWrite")
  /\ emitted' = Emit(emitted, j, "podcast.completed")
  /\ tempAudioStorage' = cleanupJobData(tempAudioStorage, j)
  /\ UNCHANGED <<dialogue, allSegmentsComplete, finalAudioBuffer>>
  /\ UNCHANGED <<avars, svars>>

\* segmentPayloads with forEach replaced by a loop from the last index down
segmentPayloadsReversed(totalSegments) ==
  [k \in 1..totalSegments |->
     [segmentIndex |-> totalSegments - k, totalSegments |-> totalSegments]]

\* the payloads segments.forEach((segment, index) => emit(...)) publishes,
\* in order (jobId and userId are the job's, text and speaker the segment's)
segmentPayloads(totalSegments) ==
  [k \in 1..totalSegments |->
     [segmentIndex |-> k - 1, totalSegments |-> totalSegments]]

\* PodcastContentGeneratedListener, totalSegments > 0: status write,
\* initializeJobStorage, one 'podcast.segment.audio_requested' per segment
contentGeneratedFanOut(j) ==
  /\ pc[j][HCon] = "queued"
  /\ ~completesEarly(TotalSegments(dialogue[j]))
  /\ LET n == TotalSegments(dialogue[j])
         published == segmentPayloads(n) IN
     \E ok \in DbOutcomes :
       /\ DbCount(ok)
       /\ IF ok
            THEN /\ podcasts' =
                      updateJobStatus(podcasts, j, CurrentStep(HCon),
                                      [segmentCount |-> n])
                 /\ tempAudioStorage' =
                      initializeJobStorage(tempAudioStorage, j, n)
                 /\ segmentRequests' =
                      [segmentRequests EXCEPT ![j] = @ \o published]
                 /\ emitted' =
                      [emitted EXCEPT
                         ![j]["podcast.segment.audio_requested"] =
                           @ + Len(published)]
                 /\ pc' = [pc EXCEPT ![j] =
                             [h \in HandlerIds |->
                                IF h = HCon THEN "done"
                                ELSE IF h[1] = "seg" /\
                                        \E k \in 1..Len(published) :
                                          published[k].segmentIndex = h[2]
                                  THEN "queued"
                                ELSE pc[j][h]]]
            ELSE /\ UNCHANGED <<podcasts, tempAudioStorage, emitted,
                                segmentRequests>>
                 /\ SetPc(j, HCon, "failJob")
  /\ UNCHANGED <<dialogue, allSegmentsComplete, finalAudioBuffer,
                 requestedPayload, requestCall, failedEvents,
                 generationRejected, storageNotFound>>
  /\ UNCHANGED svars

\* SegmentAudioRequestedListener after generateSpeech settled with r: on a
\* result storeSegmentAudio, emit, and look the owner up when all complete
afterGenerateSpeech(j, i, r) ==
  /\ IF r = "ok"
       THEN LET ret == storeSegmentAudioReturns(tempAudioStorage, j, i) IN
            /\ tempAudioStorage' =
                 storeSegmentAudio(tempAudioStorage, j, i, AudioOf(j, i))
            /\ storageNotFound' =
                 IF storeSegmentAudioWarns(tempAudioStorage, j)
                   THEN [storageNotFound EXCEPT ![j] = @ \cup {i}]
                   ELSE storageNotFound
            /\ allSegmentsComplete' =
                 [allSegmentsComplete EXCEPT
                    ![j][i] = IF ret THEN "true" ELSE "false"]
            /\ emitted' = Emit(emitted, j, "podcast.segment.audio_generated")
            /\ SetPc(j, HSeg(i), IF ret THEN "getJobUserId" ELSE "done")
       ELSE /\ UNCHANGED <<tempAudioStorage, allSegmentsComplete, emitted,
                           storageNotFound>>
            /\ SetPc(j, HSeg(i), "failJob")
  /\ UNCHANGED <<podcasts, dialogue, finalAudioBuffer, dbFaults>>
  /\ UNCHANGED <<requestedPayload, requestCall, segmentRequests,
                 failedEvents, generationRejected>>
  /\ UNCHANGED svars

\* SegmentAudioRequestedListener with the TTS service as a collaborator
\* that returns audio or throws
handleSegmentAudioRequested(j, i) ==
  /\ pc[j][HSeg(i)] = "queued"
  /\ \E r \in {"ok", "err"} : afterGenerateSpeech(j, i, r)

\* SegmentAudioRequestedListener with TtsService as it is written: the call
\* is this.ttsService.generateSpeech(segmentText), without options
handleSegmentAudioRequestedTts(j, i) ==
  /\ pc[j][HSeg(i)] = "queued"
  /\ \E name \in ProviderNames, providerResult \in {"audio", "error"} :
       afterGenerateSpeech(j, i,
         IF generateSpeech(NoOptions, name, providerResult) = "audio"
           THEN "ok" ELSE "err")

\* SegmentAudioRequestedListener: getJobUserId returned the owner, or null
\* when the query threw; only with an owner is the assembly event emitted
segmentGetJobUserId(j, i) ==
  /\ pc[j][HSeg(i)] = "getJobUserId"
  /\ \E ok \in DbOutcomes :
       /\ DbCount(ok)
       /\ IF ok
            THEN /\ emitted' = Emit(emitted, j, "podcast.all_audio_generated")
                 /\ pc' = [pc EXCEPT
                             ![j][HSeg(i)] = "done",
                             ![j][HAll] = IF @ = "idle" THEN "queued" ELSE @]
            ELSE /\ UNCHANGED emitted
                 /\ SetPc(j, HSeg(i), "done")
  /\ UNCHANGED <<podcasts, tempAudioStorage, dialogue, allSegmentsComplete,
                 finalAudioBuffer>>
  /\ UNCHANGED <<avars, svars>>

\* AllAudioGeneratedListener: updateJobStatus(STITCHING), retrieve, concat
handleAllAudioGenerated(j) ==
  /\ pc[j][HAll] = "queued"
  /\ \E ok \in DbOutcomes :
       /\ DbCount(ok)
       /\ IF ok
            THEN /\ podcasts' =
                      updateJobStatus(podcasts, j, CurrentStep(HAll), NoData)
                 /\ IF retrieveThrows(tempAudioStorage, j)
                      THEN /\ UNCHANGED finalAudioBuffer
                           /\ SetPc(j, HAll, "failJob")
                      ELSE /\ finalAudioBuffer' =
                                [finalAudioBuffer EXCEPT ![j] =
                                   BufferConcat(
                                     retrieveJobAudioBuffers(tempAudioStorage, j))]
                           /\ SetPc(j, HAll, "getJobRecord")
            ELSE /\ UNCHANGED <<podcasts, finalAudioBuffer>>
                 /\ SetPc(j, HAll, "failJob")
  /\ UNCHANGED <<tempAudioStorage, dialogue, allSegmentsComplete, emitted>>
  /\ UNCHANGED <<avars, svars>>

\* AllAudioGeneratedListener: getJobRecord returned the row, or null when
\* the query threw ("disappeared before final completion")
allGetJobRecord(j) ==
  /\ pc[j][HAll] = "getJobRecord"
  /\ \E ok \in DbOutcomes :
       /\ DbCount(ok)
       /\ SetPc(j, HAll, IF ok THEN "complete" ELSE "failJob")
  /\ UNCHANGED <<podcasts, tempAudioStorage, dialogue, allSegmentsComplete,
                 finalAudioBuffer, emitted>>
  /\ UNCHANGED <<avars, svars>>

\* AllAudioGeneratedListener: updateJobStatus(COMPLETED), emit (inside which
\* PodcastTerminalListener runs cleanupJobData), then cleanupJobData again
allComplete(j) ==
  /\ pc[j][HAll] = "complete"
  /\ \E ok \in DbOutcomes :
       /\ DbCount(ok)
       /\ IF ok
            THEN /\ podcasts' =
                      updateJobStatus(podcasts, j, "COMPLETED",
                                      [audioUrl |-> "url"])
                 /\ emitted' = Emit(emitted, j, "podcast.completed")
                 /\ tempAudioStorage' =
                      cleanupJobData(cleanupJobData(tempAudioStorage, j), j)
            ELSE UNCHANGED <<podcasts, emitted, tempAudioStorage>>
       /\ SetPc(j, HAll, afterCompletedWrite(ok))
  /\ UNCHANGED <<dialogue, allSegmentsComplete, finalAudioBuffer>>
  /\ UNCHANGED <<avars, svars>>

\* failJob, the UPDATE: it is applied, or it throws into the catch block
failJob(j, h) ==
  /\ pc[j][h] = "failJob"
  /\ \E ok \in DbOutcomes :
       /\ DbCount(ok)
       /\ IF ok
            THEN /\ podcasts' =
                      failJobUpdate(podcasts, j, CurrentStep(h),
                                    FailMessage(h, MessageLength(j)))
                 /\ SetPc(j, h, "failEmit")
            ELSE /\ UNCHANGED podcasts
                 /\ SetPc(j, h, "failCatch")
  /\ UNCHANGED <<tempAudioStorage, dialogue, allSegmentsComplete,
                 finalAudioBuffer, emitted>>
  /\ UNCHANGED <<avars, svars>>

\* failJob after the await: emit 'podcast.failed' unless the UPDATE threw,
\* then the finally block
failJobFinally(j, h) ==
  /\ pc[j][h] \in {"failEmit", "failCatch"}
  /\ emitted' = IF pc[j][h] = "failEmit"
                  THEN Emit(emitted, j, "podcast.failed")
                  ELSE emitted
  /\ failedEvents' =
       IF pc[j][h] = "failEmit"
         THEN [failedEvents EXCEPT ![j] =
                 Append(@, [jobId |-> j, failedStep |-> CurrentStep(h)])]
         ELSE failedEvents
  /\ tempAudioStorage' = cleanupJobData(tempAudioStorage, j)
  /\ SetPc(j, h, IF pc[j][h] = "failEmit" THEN "failed" ELSE "failedNoWrite")
  /\ UNCHANGED <<podcasts, dialogue, allSegmentsComplete, finalAudioBuffer,
                 dbFaults>>
  /\ UNCHANGED <<requestedPayload, requestCall, segmentRequests,
                 generationRejected, storageNotFound>>
  /\ UNCHANGED svars

Next ==
  \/ \E j \in Jobs : requestPodcastCreation(j)
  \/ \E j \in Jobs : handlePodcastRequested(j)
  \/ \E j \in Jobs : scrapeUrlReturns(j)
  \/ \E j \in Jobs : handlePodcastScraped(j)
  \/ \E j \in Jobs : generateJsonResponseReturns(j)
  \/ \E j \in Jobs : persistContent(j)
  \/ \E j \in Jobs : contentGeneratedEmpty(j)
  \/ \E j \in Jobs : earlyComplete(j)
  \/ \E j \in Jobs : contentGeneratedFanOut(j)
  \/ \E j \in Jobs, i \in SegIdx : handleSegmentAudioRequested(j, i)
  \/ \E j \in Jobs, i \in SegIdx : segmentGetJobUserId(j, i)
  \/ \E j \in Jobs : handleAllAudioGenerated(j)
  \/ \E j \in Jobs : allGetJobRecord(j)
  \/ \E j \in Jobs : allComplete(j)
  \/ \E j \in Jobs, h \in HandlerIds : failJob(j, h)
  \/ \E j \in Jobs, h \in HandlerIds : failJobFinally(j, h)

Spec == Init /\ [][Next]_vars

\* The event loop runs every queued handler and every continuation whose
\* awaited call has returned, and every awaited call returns: some enabled
\* step is always taken eventually.
FairSpec == Spec /\ WF_vars(Next)


\* The listener pipeline with TtsService as it is written.  The steps after
\* a stored segment (segmentGetJobUserId and the assembly handler) are left
\* out of NextT: TtsNeverReturnsAudio shows that NextT never reaches a state
\* in which one of them is enabled.
NextT ==
  \/ \E j \in Jobs : requestPodcastCreation(j)
  \/ \E j \in Jobs : handlePodcastRequested(j)
  \/ \E j \in Jobs : scrapeUrlReturns(j)
  \/ \E j \in Jobs : handlePodcastScraped(j)
  \/ \E j \in Jobs : generateJsonResponseReturns(j)
  \/ \E j \in Jobs : persistContent(j)
  \/ \E j \in Jobs : contentGeneratedEmpty(j)
  \/ \E j \in Jobs : earlyComplete(j)
  \/ \E j \in Jobs : contentGeneratedFanOut(j)
  \/ \E j \in Jobs, i \in SegIdx : handleSegmentAudioRequestedTts(j, i)
  \/ \E j \in Jobs, h \in HandlerIds : failJob(j, h)
  \/ \E j \in Jobs, h \in HandlerIds : failJobFinally(j, h)

SpecT == Init /\ [][NextT]_vars /\ WF_vars(NextT)

\* under SpecT no segment is ever stored and the assembly handler is never
\* queued
TtsNeverReturnsAudio ==
  \A j \in Jobs :
    /\ pc[j][HAll] = "idle"
    /\ \A i \in SegIdx :
         /\ pc[j][HSeg(i)] # "getJobUserId"
         /\ allSegmentsComplete[j][i] = "unset"


\* ================================================ claims, listener pipeline
FailPcs == {"failJob", "failEmit", "failCatch", "failed", "failedNoWrite"}

\* the segments of job j whose storeSegmentAudio call has returned
Stored(j) == {i \in SegIdx : allSegmentsComplete[j][i] # "unset"}

\* the segments of job j whose storeSegmentAudio call returned true
ReturnedTrue(j) == {i \in SegIdx : allSegmentsComplete[j][i] = "true"}

\* C1: for a job with N >= 1 segments at most one storeSegmentAudio call
\* returns true, a call returns true only when it completes the set of N
\* (every other index has been stored before it), and once all N indices have
\* been stored exactly one call has returned true.
C1_ExactlyOneTrue ==
  \A j \in Jobs :
    dialogue[j] >= 1 =>
      LET all == 0..(dialogue[j] - 1) IN
      /\ Cardinality(ReturnedTrue(j)) <= 1
      /\ (ReturnedTrue(j) # {} => Stored(j) = all)
      /\ (Stored(j) = all => Cardinality(ReturnedTrue(j)) = 1)

\* job 1: two segments, segment 0 stored last; job 2 storing in between
C1_Witness ==
  /\ dialogue[1] = 2
  /\ allSegmentsComplete[1][0] = "true"
  /\ allSegmentsComplete[1][1] = "false"
  /\ tempAudioStorage[2].present
  /\ tempAudioStorage[2].completed = {1}

\* bytes(0) ++ ... ++ bytes(n-1) of job j, written out byte by byte
ExpectedAudio(j, n) ==
  [k \in 1..(2 * n) |-> IF k % 2 = 1 THEN j ELSE (k \div 2) - 1]

\* C3: whatever the arrival order, the assembly handler's concatenation is
\* bytes(0) ++ bytes(1) ++ ... ++ bytes(N-1).
C3_AssembledInDialogueOrder ==
  \A j \in Jobs :
    pc[j][HAll] \in {"getJobRecord", "complete", "done"} =>
      finalAudioBuffer[j] = ExpectedAudio(j, dialogue[j])

\* assembled with segment 0 having arrived last
C3_Witness ==
  /\ pc[1][HAll] = "complete"
  /\ dialogue[1] = 2
  /\ allSegmentsComplete[1][0] = "true"
  /\ finalAudioBuffer[1] = <<1, 0, 1, 1>>

\* C4: every change of a persisted status goes to a later state of the
\* chain or to FAILED, never back.
C4_StatusOnlyForward ==
  [][\A j \in Jobs :
       (podcasts[j].status # "ABSENT"
          /\ podcasts'[j].status # podcasts[j].status)
         => StatusRank(podcasts'[j].status) > StatusRank(podcasts[j].status)]_vars

\* one job through the whole chain, the other failed on the way
C4_Witness ==
  /\ podcasts[1].status = "COMPLETED"
  /\ podcasts[1].audioUrl = "url"
  /\ podcasts[2].status = "FAILED"

\* C5: a COMPLETED status is never overwritten.
C5_CompletedNeverChanges ==
  [][\A j \in Jobs :
       podcasts[j].status = "COMPLETED" => podcasts'[j].status = "COMPLETED"]_vars

\* an assembled job after its last handler has returned
C5_Witness ==
  /\ podcasts[1].status = "COMPLETED"
  /\ pc[1][HAll] = "done"
  /\ ~tempAudioStorage[1].present

\* C6 as claimed: once FAILED, status, errorStep and errorMessage stay.
C6_FailedNeverChanges ==
  [][\A j \in Jobs :
       podcasts[j].status = "FAILED" =>
         /\ podcasts'[j].status = "FAILED"
         /\ podcasts'[j].errorStep = podcasts[j].errorStep
         /\ podcasts'[j].errorMessage = podcasts[j].errorMessage]_vars

\* the status of the stage a handler belongs to
StageStatus(h) ==
  CASE h[1] = "req" -> "SCRAPING"
    [] h[1] = "scr" -> "GENERATING_CONTENT"
    [] h[1] = "all" -> "STITCHING"
    [] OTHER -> "GENERATING_AUDIO"

C8_SegmentFailureBlocksAssembly ==
  \A j \in Jobs :
    (\E i \in SegIdx : pc[j][HSeg(i)] \in FailPcs) =>
      /\ podcasts[j].status \notin {"STITCHING", "COMPLETED"}
      /\ emitted[j]["podcast.all_audio_generated"] = 0

\* one segment failed, the other was synthesised and stored
C8_Witness ==
  /\ dialogue[1] = 2
  /\ pc[1][HSeg(1)] = "failed"
  /\ pc[1][HSeg(0)] = "done"
  /\ allSegmentsComplete[1][0] = "false"

C11_MissingSegmentsFails ==
  \A j \in Jobs :
    dialogue[j] = -1 =>
      /\ emitted[j]["podcast.segment.audio_requested"] = 0
      /\ podcasts[j].status # "COMPLETED"
      /\ pc[j][HScr] \in {"done", "failed"} =>
           /\ podcasts[j].status = "FAILED"
           /\ podcasts[j].errorStep = "GENERATING_CONTENT"


\* the handlers of job j that call the LLM or the TTS service have not run
NoGenerationOrSynthesis(j) ==
  /\ pc[j][HScr] = "idle"
  /\ pc[j][HCon] = "idle"
  /\ \A i \in SegIdx : pc[j][HSeg(i)] = "idle"
  /\ dialogue[j] = -2
  /\ ~tempAudioStorage[j].present

C13_EveryJobTerminates ==
  \A j \in Jobs :
    (podcasts[j].status # "ABSENT") ~>
      (podcasts[j].status \in {"COMPLETED", "FAILED"})


\* C14 as claimed: a job with N >= 1 segments whose segment events have been
\* published eventually is COMPLETED with a final audio reference, unless a
\* database call throws.  (Under SpecT the content event is published only
\* after scraping and both generation requests succeeded, and no provider
\* call ever fails.)
C14_AllSucceedLeadsToCompleted ==
  \A j \in Jobs :
    (dialogue[j] >= 1 /\ pc[j][HCon] = "done") ~>
      \/ podcasts[j].status = "COMPLETED" /\ podcasts[j].audioUrl = "url"
      \/ dbFaults > 0


\* C15 as claimed: the write that makes a job FAILED stores as errorStep the
\* status the job had just before that write.
C15_ErrorStepIsPreviousStatus ==
  [][\A j \in Jobs :
       (podcasts[j].status # "FAILED" /\ podcasts'[j].status = "FAILED")
         => podcasts'[j].errorStep = podcasts[j].status]_vars


\* C16: every failJob invocation ends with the job's tracker entry removed
\* (expected total, completed set and stored bytes), whether its UPDATE
\* returned or threw.
C16_FailJobAlwaysCleansUp ==
  [][\A j \in Jobs, h \in HandlerIds :
       (pc[j][h] \in {"failEmit", "failCatch"}
          /\ pc'[j][h] \in {"failed", "failedNoWrite"})
         => tempAudioStorage'[j] = NoStorage]_vars

\* segment 0 failed after segment 1 had been stored, and failJob's UPDATE
\* threw: the job is still GENERATING_AUDIO and its entry is gone
C16_Witness ==
  /\ dialogue[1] = 2
  /\ allSegmentsComplete[1][1] = "false"
  /\ pc[1][HSeg(0)] = "failedNoWrite"
  /\ podcasts[1].status = "GENERATING_AUDIO"
  /\ tempAudioStorage[1] = NoStorage


\* 'podcast.all_audio_generated' of job j is published in this step
PublishesAllAudio(j) ==
  emitted'[j]["podcast.all_audio_generated"] #
    emitted[j]["podcast.all_audio_generated"]

\* the assembly handler of job j calls retrieveJobAudioBuffers in this step
\* (it does so right after its STITCHING write returned)
CallsRetrieve(j) ==
  /\ pc[j][HAll] = "queued"
  /\ pc'[j][HAll] # "queued"
  /\ podcasts'[j].status = "STITCHING"

\* C17: 'podcast.all_audio_generated' is published at most once per job and
\* only by a segment handler whose storeSegmentAudio call returned true; the
\* assembly handler runs at most once per job, and when it calls
\* retrieveJobAudioBuffers all N indices are stored.
C17_AllAudioAtMostOnce ==
  /\ [](\A j \in Jobs :
          /\ emitted[j]["podcast.all_audio_generated"] <= 1
          /\ pc[j][HAll] # "idle" =>
               emitted[j]["podcast.all_audio_generated"] = 1)
  /\ [][\A j \in Jobs :
          /\ PublishesAllAudio(j) =>
               \E i \in SegIdx :
                 /\ allSegmentsComplete[j][i] = "true"
                 /\ pc[j][HSeg(i)] = "getJobUserId"
                 /\ pc'[j][HSeg(i)] = "done"
          /\ pc'[j][HAll] = "queued" => pc[j][HAll] \in {"idle", "queued"}
          /\ CallsRetrieve(j) =>
               /\ tempAudioStorage[j].present
               /\ tempAudioStorage[j].total = dialogue[j]
               /\ tempAudioStorage[j].completed = 0..(dialogue[j] - 1)
               /\ DOMAIN tempAudioStorage[j].bufs = 0..(dialogue[j] - 1)]_vars

\* the one event of a two-segment job has been handled up to the retrieval
C17_Witness ==
  /\ dialogue[1] = 2
  /\ emitted[1]["podcast.all_audio_generated"] = 1
  /\ pc[1][HAll] = "getJobRecord"
  /\ Len(finalAudioBuffer[1]) = 4


\* the columns of job j's row that requestPodcastCreation was given
Submitted(j) ==
  [userId |-> podcasts[j].userId, url |-> podcasts[j].url,
   deepDiveOption |-> podcasts[j].deepDiveOption]

\* C18: a requestPodcastCreation call that returned gave status PENDING and
\* the id of a row that exists with the submitted url, owner and option;
\* 'podcast.requested' is published once, in the step that persisted the row
\* as PENDING and with the same data; a call whose INSERT failed returned no
\* id, published nothing and left no row.
C18_RequestReturnsPersistedJob ==
  /\ [](\A j \in Jobs :
          /\ requestCall[j].settled = "returned" =>
               /\ requestCall[j].status = "PENDING"
               /\ requestCall[j].jobId = j
               /\ podcasts[j].status # "ABSENT"
               /\ Submitted(j) = requestCall[j].dto
          /\ requestCall[j].settled = "threw" =>
               /\ requestCall[j].jobId = 0
               /\ podcasts[j].status = "ABSENT"
               /\ emitted[j]["podcast.requested"] = 0
          /\ emitted[j]["podcast.requested"] <= 1
          /\ emitted[j]["podcast.requested"] = 1 =>
               /\ podcasts[j].status # "ABSENT"
               /\ requestedPayload[j] =
                    [jobId |-> j, userId |-> podcasts[j].userId,
                     url |-> podcasts[j].url,
                     deepDiveOption |-> podcasts[j].deepDiveOption])
  /\ [][\A j \in Jobs :
          requestCall'[j].settled = "returned" /\ requestCall[j].settled # "returned"
            => /\ podcasts'[j].status = "PENDING"
               /\ emitted'[j]["podcast.requested"] = 1]_vars

\* job 1 was submitted by user 1 and has moved on; the INSERT of the next
\* submission failed
C18_Witness ==
  /\ requestCall[1].settled = "returned"
  /\ requestCall[1].dto.userId = 1
  /\ podcasts[1].status = "SCRAPING"
  /\ podcasts[1].url = "a"
  /\ requestCall[2].settled = "threw"


\* callers: the two users that submit jobs and one that owns nothing
Callers == {1, 2, 3}

\* job ids a caller may ask for: the two jobs and an id that is never issued
AskedIds == Jobs \cup {3}

\* the table with every row the caller does not own replaced by "no row":
\* two tables with the same CallerView differ only in existence or contents
\* of jobs the caller does not own
CallerView(tbl, userId) ==
  [j \in DOMAIN tbl |-> IF tbl[j].userId = userId THEN tbl[j] ELSE NoRow]

\* caller userId does not own job jobId: it is absent or another user's
NotOwned(tbl, jobId, userId) ==
  \/ jobId \notin DOMAIN tbl
  \/ tbl[jobId].status = "ABSENT"
  \/ tbl[jobId].userId # userId

\* C19: what getPodcastJobStatus answers a caller is determined by the rows
\* the caller owns (it is the answer on the table without the other rows),
\* and for a job the caller does not own it is the NotFound exception with
\* the message that names only the requested id.
C19_NotFoundHidesExistence ==
  \A u \in Callers, j \in AskedIds :
    /\ getPodcastJobStatus(podcasts, j, u) =
         getPodcastJobStatus(CallerView(podcasts, u), j, u)
    /\ NotOwned(podcasts, j, u) =>
         getPodcastJobStatus(podcasts, j, u) = NotFoundException(j)

\* job 1 exists under user 1 and job 2 does not exist: user 2 gets NotFound
\* for both, user 1 gets the status of job 1
C19_Witness ==
  /\ podcasts[1].userId = 1
  /\ podcasts[1].status = "GENERATING_AUDIO"
  /\ podcasts[2].status = "ABSENT"
  /\ getPodcastJobStatus(podcasts, 1, 2).kind = "NotFoundException"
  /\ getPodcastJobStatus(podcasts, 2, 2).kind = "NotFoundException"
  /\ getPodcastJobStatus(podcasts, 1, 1).kind = "PodcastStatusResponseDto"

\* C20: for the owner, result is non-null exactly when the persisted status
\* is COMPLETED, and then it carries the row's content, audioUrl and
\* metadata.
C20_ResultIffCompleted ==
  \A j \in Jobs :
    podcasts[j].status # "ABSENT" =>
      LET r == getPodcastJobStatus(podcasts, j, podcasts[j].userId) IN
      /\ r.kind = "PodcastStatusResponseDto"
      /\ r.status = podcasts[j].status
      /\ (r.result # <<>>) <=> (podcasts[j].status = "COMPLETED")
      /\ r.result # <<>> =>
           /\ r.result[1].content = podcasts[j].hasContent
           /\ r.result[1].audioUrl = podcasts[j].audioUrl
           /\ r.result[1].jobMetadata = podcasts[j].segmentCount

\* one job COMPLETED with audio and one FAILED, each asked for by its owner
C20_Witness ==
  /\ podcasts[1].status = "COMPLETED"
  /\ podcasts[2].status = "FAILED"
  /\ getPodcastJobStatus(podcasts, 1, podcasts[1].userId).result[1].audioUrl = "url"
  /\ getPodcastJobStatus(podcasts, 2, podcasts[2].userId).result = <<>>
  /\ getPodcastJobStatus(podcasts, 2, podcasts[2].userId).errorStep = "GENERATING_AUDIO"


\* positions of a handler that has not been triggered or has returned
RestPcs == {"idle", "done", "doneNoWrite", "failed", "failedNoWrite"}

\* the stages of job j with a handler that is queued or running; the first
\* component of a handler id names its stage's listener, and the segment
\* handlers share one
ActiveStages(j) == {h[1] : h \in {g \in HandlerIds : pc[j][g] \notin RestPcs}}

\* C21: at any moment the handlers of a job that are queued or running
\* belong to one listener (the segment handlers counting as one), so a later
\* stage's handler never runs while an earlier one can still write the row.
C21_OneStageAtATime ==
  \A j \in Jobs : Cardinality(ActiveStages(j)) <= 1

\* both segment handlers of job 1 are at work at once (one in failJob, one
\* waiting for synthesis) and no other handler of the job is
C21_Witness ==
  /\ dialogue[1] = 2
  /\ pc[1][HSeg(0)] = "failJob"
  /\ pc[1][HSeg(1)] = "queued"
  /\ ActiveStages(1) = {"seg"}
  /\ ActiveStages(2) = {"scr"}


\* C22: the segment events of a job are published in one step, by the
\* content handler of a dialogue with N >= 1 segments: exactly N of them,
\* for the indices 0, 1, ..., N-1 in this order, each with totalSegments = N;
\* in that step the row is GENERATING_AUDIO with segment count N and the
\* tracker entry expects N segments and has none completed.
C22_FanOutInIndexOrder ==
  /\ [](\A j \in Jobs :
          emitted[j]["podcast.segment.audio_requested"] = Len(segmentRequests[j]))
  /\ [][\A j \in Jobs :
          segmentRequests'[j] # segmentRequests[j] =>
            LET n == dialogue[j] IN
            /\ pc[j][HCon] = "queued"
            /\ segmentRequests[j] = <<>>
            /\ n >= 1
            /\ Len(segmentRequests'[j]) = n
            /\ \A k \in 1..n :
                 /\ segmentRequests'[j][k].segmentIndex = k - 1
                 /\ segmentRequests'[j][k].totalSegments = n
            /\ podcasts'[j].status = "GENERATING_AUDIO"
            /\ podcasts'[j].segmentCount = n
            /\ tempAudioStorage'[j].present
            /\ tempAudioStorage'[j].total = n
            /\ tempAudioStorage'[j].completed = {}]_vars

\* the two segment events of job 1 have been published, none handled yet
C22_Witness ==
  /\ dialogue[1] = 2
  /\ Len(segmentRequests[1]) = 2
  /\ segmentRequests[1][1].segmentIndex = 0
  /\ segmentRequests[1][2].segmentIndex = 1
  /\ pc[1][HSeg(0)] = "queued"
  /\ pc[1][HSeg(1)] = "queued"
  /\ podcasts[1].segmentCount = 2


\* C23: from the step in which the assembly handler has written COMPLETED
\* and published 'podcast.completed' on, the job has no tracker entry.
C23_NoTrackerAfterCompleted ==
  \A j \in Jobs :
    (pc[j][HAll] = "done" \/ emitted[j]["podcast.completed"] > 0) =>
      tempAudioStorage[j] = NoStorage

\* job 1 was assembled from two segments and completed while job 2 still
\* has its entry
C23_Witness ==
  /\ pc[1][HAll] = "done"
  /\ dialogue[1] = 2
  /\ emitted[1]["podcast.completed"] = 1
  /\ podcasts[1].audioUrl = "url"
  /\ tempAudioStorage[1] = NoStorage
  /\ tempAudioStorage[2].present


\* segment i of job j has not been handled while every other segment of the
\* job has been stored and its handler has returned
OneUndelivered(j, i) ==
  /\ dialogue[j] >= 1
  /\ i < dialogue[j]
  /\ pc[j][HSeg(i)] = "queued"
  /\ \A k \in 0..(dialogue[j] - 1) :
       k # i => pc[j][HSeg(k)] = "done" /\ k \in tempAudioStorage[j].completed

\* C24: as long as one segment of a job is not handled while the other N-1
\* have completed, the job stays GENERATING_AUDIO, assembly is not triggered,
\* no terminal event is published and the tracker entry is kept.
C24_OneMissingSegmentStalls ==
  \A j \in Jobs : \A i \in SegIdx :
    OneUndelivered(j, i) =>
      /\ podcasts[j].status = "GENERATING_AUDIO"
      /\ pc[j][HAll] = "idle"
      /\ emitted[j]["podcast.all_audio_generated"] = 0
      /\ emitted[j]["podcast.completed"] = 0
      /\ emitted[j]["podcast.failed"] = 0
      /\ tempAudioStorage[j].present
      /\ tempAudioStorage[j].completed = (0..(dialogue[j] - 1)) \ {i}

\* two segments: segment 1 was stored and its handler returned, segment 0
\* is still waiting
C24_Witness ==
  /\ dialogue[1] = 2
  /\ OneUndelivered(1, 0)
  /\ allSegmentsComplete[1][1] = "false"
  /\ emitted[1]["podcast.segment.audio_generated"] = 1


\* the row of job j as failJob called by handler h writes it
FailedRowOf(tbl, j, h) ==
  /\ tbl[j].status = "FAILED"
  /\ tbl[j].errorStep = CurrentStep(h)
  /\ tbl[j].errorMessage[1] = h[1]
  /\ tbl[j].errorMessage[2] = h[2]
  /\ tbl[j].errorMessage[3] <= ErrorMessageLimit

\* the 'podcast.failed' payload of failJob called by handler h of job j
FailedPayloadOf(j, h) == [jobId |-> j, failedStep |-> CurrentStep(h)]

C27_CompletedPublishedAfterWrite ==
  [][\A j \in Jobs :
       emitted'[j]["podcast.completed"] > emitted[j]["podcast.completed"] =>
         podcasts'[j].status = "COMPLETED"]_vars


\* C28: a persisted status only changes from no row to PENDING, to FAILED,
\* or to the next status of the chain PENDING, SCRAPING, GENERATING_CONTENT,
\* GENERATING_AUDIO, STITCHING, COMPLETED (the one shortcut, from
\* GENERATING_CONTENT to COMPLETED, is taken only without segments), and
\* FAILED is never left; so a job with N >= 1 segments that is COMPLETED
\* has had every status of the chain in order, each written by the stage
\* handler that has run to its end.
C28_StatusesInOrder ==
  /\ [][\A j \in Jobs :
          podcasts'[j].status # podcasts[j].status =>
            \/ podcasts[j].status = "ABSENT" /\ podcasts'[j].status = "PENDING"
            \/ podcasts[j].status # "COMPLETED" /\ podcasts'[j].status = "FAILED"
            \/ /\ podcasts[j].status \notin {"ABSENT", "FAILED"}
               /\ StatusRank(podcasts'[j].status) =
                    StatusRank(podcasts[j].status) + 1
            \/ /\ dialogue[j] < 1
               /\ podcasts[j].status = "GENERATING_CONTENT"
               /\ podcasts'[j].status = "COMPLETED"
       ]_vars
  /\ [](\A j \in Jobs :
          (podcasts[j].status = "COMPLETED" /\ dialogue[j] >= 1) =>
            /\ \A h \in {HReq, HScr, HCon, HAll} : pc[j][h] = "done"
            /\ \A i \in 0..(dialogue[j] - 1) : pc[j][HSeg(i)] = "done")

\* job 1 with two segments is COMPLETED with its audio
C28_Witness ==
  /\ podcasts[1].status = "COMPLETED"
  /\ dialogue[1] = 2
  /\ podcasts[1].audioUrl = "url"
  /\ podcasts[1].segmentCount = 2
  /\ pc[1][HAll] = "done"
  /\ emitted[1]["podcast.all_audio_generated"] = 1


\* the listeners that write their stage's status before anything else
StageHandlers == {HReq, HScr, HCon, HAll}

\* the next-stage event of each of them
NextStageEvent(h) ==
  CASE h = HReq -> "podcast.scraped"
    [] h = HScr -> "podcast.content_generated"
    [] h = HCon -> "podcast.segment.audio_requested"
    [] OTHER -> "podcast.completed"

\* C29: when the database call a stage handler starts with throws, the
\* handler goes to failJob in that step, with the row, the tracker, the
\* assembly buffer and the published events as they were (no collaborator
\* was called, nothing was published); a handler in failJob stays there,
\* and its next-stage event is never published.
C29_EntryWriteFailureIsFatal ==
  /\ [][\A j \in Jobs : \A h \in StageHandlers :
          /\ ( /\ pc[j][h] = "queued"
               /\ pc'[j][h] # "queued"
               /\ dbFaults' # dbFaults ) =>
               /\ pc'[j][h] = "failJob"
               /\ podcasts' = podcasts
               /\ emitted' = emitted
               /\ tempAudioStorage' = tempAudioStorage
               /\ finalAudioBuffer' = finalAudioBuffer
               /\ segmentRequests' = segmentRequests
               /\ dialogue' = dialogue
          /\ pc[j][h] \in FailPcs => pc'[j][h] \in FailPcs
       ]_vars
  /\ [](\A j \in Jobs : \A h \in StageHandlers :
          pc[j][h] \in FailPcs => emitted[j][NextStageEvent(h)] = 0)

\* job 1's SCRAPING write threw: its handler is in failJob, the row is
\* still PENDING and nothing but 'podcast.requested' was published
C29_Witness ==
  /\ pc[1][HReq] = "failJob"
  /\ podcasts[1].status = "PENDING"
  /\ dbFaults = 1
  /\ emitted[1]["podcast.requested"] = 1
  /\ emitted[1]["podcast.scraped"] = 0
  /\ pc[1][HScr] = "idle"


C31_FailedPublishedAtMostOnce ==
  \A j \in Jobs : emitted[j]["podcast.failed"] <= 1


\* C32: no job has both a 'podcast.completed' and a 'podcast.failed' event
\* published for it.
C32_NeverCompletedAndFailed ==
  \A j \in Jobs :
    ~(emitted[j]["podcast.completed"] > 0 /\ emitted[j]["podcast.failed"] > 0)

\* job 1 with two segments was completed and job 2 failed in assembly
\* after a database call had thrown: each has its one terminal event
C32_Witness ==
  /\ emitted[1]["podcast.completed"] = 1
  /\ emitted[1]["podcast.failed"] = 0
  /\ dialogue[1] = 2
  /\ pc[2][HAll] = "failed"
  /\ emitted[2]["podcast.failed"] = 1
  /\ emitted[2]["podcast.completed"] = 0
  /\ dbFaults = 1


\* C33: for a job without a tracker entry storeSegmentAudio returns false
\* and leaves the storage as it is, for every index; a segment handler
\* that stores in that situation does not create an entry, does not see
\* 'all complete' and does not trigger assembly; and an entry that is gone
\* is never created again.
C33_StoreWithoutEntry ==
  /\ [](\A j \in Jobs : \A i \in SegIdx :
          ~tempAudioStorage[j].present =>
            /\ ~storeSegmentAudioReturns(tempAudioStorage, j, i)
            /\ storeSegmentAudio(tempAudioStorage, j, i, AudioOf(j, i)) =
                 tempAudioStorage)
  /\ [](\A j \in Jobs : \A i \in storageNotFound[j] :
          /\ allSegmentsComplete[j][i] = "false"
          /\ pc[j][HSeg(i)] = "done"
          /\ tempAudioStorage[j] = NoStorage
          /\ pc[j][HAll] = "idle"
          /\ emitted[j]["podcast.all_audio_generated"] = 0)
  /\ [][\A j \in Jobs :
          (~tempAudioStorage[j].present /\ pc[j][HCon] # "queued") =>
            tempAudioStorage'[j] = NoStorage]_vars

\* segment 0 of job 1 failed and the job's entry was removed; segment 1 was
\* synthesised afterwards and found no storage
C33_Witness ==
  /\ dialogue[1] = 2
  /\ pc[1][HSeg(0)] = "failed"
  /\ podcasts[1].status = "FAILED"
  /\ storageNotFound[1] = {1}
  /\ allSegmentsComplete[1][1] = "false"
  /\ emitted[1]["podcast.segment.audio_generated"] = 1
  /\ ~tempAudioStorage[1].present


\* a buffer no synthesis call of the model returns
OtherAudio == <<0, 0>>

\* C34: in every reachable storage, storing an index that is already in a
\* job's completed set leaves the set (and so its size), the total, the
\* other indices' bytes and the other jobs' entries as they are, puts the
\* new bytes at that index, and returns whether the unchanged size equals
\* the total.
C34_RepeatedStoreNotCounted ==
  \A j \in Jobs : \A i \in tempAudioStorage[j].completed :
    \A buffer \in {AudioOf(j, i), OtherAudio} :
      LET after == storeSegmentAudio(tempAudioStorage, j, i, buffer) IN
      /\ after[j].completed = tempAudioStorage[j].completed
      /\ after[j].total = tempAudioStorage[j].total
      /\ after[j].present
      /\ DOMAIN after[j].bufs = DOMAIN tempAudioStorage[j].bufs
      /\ after[j].bufs[i] = buffer
      /\ \A k \in DOMAIN after[j].bufs :
           k # i => after[j].bufs[k] = tempAudioStorage[j].bufs[k]
      /\ \A other \in Jobs \ {j} : after[other] = tempAudioStorage[other]
      /\ storeSegmentAudioReturns(tempAudioStorage, j, i) =
           (Cardinality(tempAudioStorage[j].completed) =
              tempAudioStorage[j].total)

\* job 1 has both of its two segments stored: storing index 0 again, with
\* other bytes, keeps the size at 2 and replaces the bytes of index 0
C34_Witness ==
  /\ tempAudioStorage[1].present
  /\ tempAudioStorage[1].total = 2
  /\ tempAudioStorage[1].completed = {0, 1}
  /\ tempAudioStorage[1].bufs[0] = AudioOf(1, 0)
  /\ LET after == storeSegmentAudio(tempAudioStorage, 1, 0, OtherAudio) IN
       /\ Cardinality(after[1].completed) = 2
       /\ after[1].bufs[0] = OtherAudio
       /\ after[1].bufs[1] = AudioOf(1, 1)


\* the job has no entry, or its completed set has not the size of the
\* total, or an index below the total has no bytes
MustRaise(ts, j) ==
  \/ ts[j] = NoStorage
  \/ Cardinality(ts[j].completed) # ts[j].total
  \/ \E i \in 0..(ts[j].total - 1) : i \notin DOMAIN ts[j].bufs

\* C35: on every reachable storage retrieveJobAudioBuffers raises exactly
\* in the three cases, and otherwise returns total buffers, the k-th being
\* the bytes stored for index k-1; the assembly handler's call leaves the
\* storage as it is, goes to failJob when the call raises and otherwise
\* concatenates what was returned.
C35_RetrieveRaisesOrReturnsAll ==
  /\ [](\A j \in Jobs :
          /\ retrieveThrows(tempAudioStorage, j) <=> MustRaise(tempAudioStorage, j)
          /\ ~MustRaise(tempAudioStorage, j) =>
               LET buffers == retrieveJobAudioBuffers(tempAudioStorage, j) IN
               /\ Len(buffers) = tempAudioStorage[j].total
               /\ \A k \in 1..Len(buffers) :
                    buffers[k] = tempAudioStorage[j].bufs[k - 1])
  /\ [][\A j \in Jobs :
          ( /\ pc[j][HAll] = "queued"
            /\ pc'[j][HAll] # "queued"
            /\ dbFaults' = dbFaults ) =>
            /\ tempAudioStorage' = tempAudioStorage
            /\ IF MustRaise(tempAudioStorage, j)
                 THEN /\ pc'[j][HAll] = "failJob"
                      /\ finalAudioBuffer' = finalAudioBuffer
                 ELSE /\ pc'[j][HAll] = "getJobRecord"
                      /\ finalAudioBuffer'[j] =
                           BufferConcat(
                             [k \in 1..tempAudioStorage[j].total |->
                                tempAudioStorage[j].bufs[k - 1]])
       ]_vars

\* job 1's assembly handler has retrieved its two buffers in order and left
\* the storage as it was, while retrieval would raise for job 2, which has
\* one of its two segments stored
C35_Witness ==
  /\ pc[1][HAll] = "getJobRecord"
  /\ tempAudioStorage[1].completed = {0, 1}
  /\ retrieveJobAudioBuffers(tempAudioStorage, 1) =
       <<AudioOf(1, 0), AudioOf(1, 1)>>
  /\ finalAudioBuffer[1] = BufferConcat(<<AudioOf(1, 0), AudioOf(1, 1)>>)
  /\ tempAudioStorage[2].present
  /\ tempAudioStorage[2].total = 2
  /\ Cardinality(tempAudioStorage[2].completed) = 1
  /\ retrieveThrows(tempAudioStorage, 2)


\* C36: initializeJobStorage, storeSegmentAudio and cleanupJobData for job
\* a leave every other job's entry as it is, on every reachable storage;
\* a step changes the entry of job b only if it is a step of a handler of
\* job b and of no other job; and a segment handler of job b sees 'all
\* complete' only in the step that makes b's own completed set full.
C36_JobsDoNotInterfere ==
  /\ [](\A a \in Jobs : \A b \in Jobs \ {a} :
          /\ \A n \in 0..MaxSegs :
               initializeJobStorage(tempAudioStorage, a, n)[b] =
                 tempAudioStorage[b]
          /\ \A i \in SegIdx :
               storeSegmentAudio(tempAudioStorage, a, i, AudioOf(a, i))[b] =
                 tempAudioStorage[b]
          /\ cleanupJobData(tempAudioStorage, a)[b] = tempAudioStorage[b])
  /\ [][\A b \in Jobs :
          /\ tempAudioStorage'[b] # tempAudioStorage[b] =>
               /\ pc'[b] # pc[b]
               /\ \A a \in Jobs \ {b} : pc'[a] = pc[a]
          /\ \A i \in SegIdx :
               ( /\ allSegmentsComplete'[b][i] = "true"
                 /\ allSegmentsComplete[b][i] # "true" ) =>
                 /\ pc[b][HSeg(i)] = "queued"
                 /\ tempAudioStorage'[b].total = dialogue[b]
                 /\ tempAudioStorage'[b].completed = 0..(dialogue[b] - 1)
                 /\ tempAudioStorage[b].completed = (0..(dialogue[b] - 1)) \ {i}
                 /\ \A k \in 0..(dialogue[b] - 1) :
                      tempAudioStorage'[b].bufs[k] = AudioOf(b, k)
       ]_vars

\* job 1 failed in segment 0 and its entry was removed, while job 2 keeps
\* its entry with its own segment 1 stored
C36_Witness ==
  /\ dialogue[1] = 2
  /\ pc[1][HSeg(0)] = "failed"
  /\ tempAudioStorage[1] = NoStorage
  /\ dialogue[2] = 2
  /\ tempAudioStorage[2].present
  /\ tempAudioStorage[2].total = 2
  /\ tempAudioStorage[2].completed = {1}
  /\ tempAudioStorage[2].bufs[1] = AudioOf(2, 1)
  /\ pc[2][HSeg(0)] = "queued"


\* ================================================== single-class pipeline
SSetPc(j, h, v) == spc' = [spc EXCEPT ![j][h] = v]

\* requestPodcastCreation: INSERT, then emit
sRequestPodcastCreation(j) ==
  /\ sjobs[j].status = "ABSENT"
  /\ \E ok \in DbOutcomes :
       /\ DbCount(ok)
       /\ IF ok
            THEN /\ sjobs' = [sjobs EXCEPT ![j] = SNewRow]
                 /\ semitted' = Emit(semitted, j, "podcast.requested")
                 /\ SSetPc(j, SReq, "queued")
            ELSE UNCHANGED <<sjobs, semitted, spc>>
  /\ UNCHANGED <<jobCompletionTracker, sdialogue, sfiles>>
  /\ UNCHANGED tvars
  /\ UNCHANGED lvars

\* handlePodcastRequested: UPDATE status SCRAPING, then scrapeUrl
sHandlePodcastRequested(j) ==
  /\ spc[j][SReq] = "queued"
  /\ \E ok \in DbOutcomes :
       /\ DbCount(ok)
       /\ IF ok
            THEN /\ sjobs' = [sjobs EXCEPT ![j].status = "SCRAPING"]
                 /\ SSetPc(j, SReq, "scrapeUrl")
            ELSE /\ UNCHANGED sjobs
                 /\ SSetPc(j, SReq, "catch")
  /\ UNCHANGED <<jobCompletionTracker, sdialogue, sfiles, semitted>>
  /\ UNCHANGED tvars
  /\ UNCHANGED lvars

\* handlePodcastRequested: scrapeUrl returned or threw
sScrapeUrlReturns(j) ==
  /\ spc[j][SReq] = "scrapeUrl"
  /\ \E r \in {"ok", "err"} :
       SSetPc(j, SReq, IF r = "ok" THEN "setGenerating" ELSE "catch")
  /\ UNCHANGED <<sjobs, jobCompletionTracker, sdialogue, sfiles, semitted,
                 dbFaults>>
  /\ UNCHANGED tvars
  /\ UNCHANGED lvars

\* handlePodcastRequested: UPDATE status GENERATING_CONTENT, emit scraped
sSetGeneratingContent(j) ==
  /\ spc[j][SReq] = "setGenerating"
  /\ \E ok \in DbOutcomes :
       /\ DbCount(ok)
       /\ IF ok
            THEN /\ sjobs' = [sjobs EXCEPT ![j].status = "GENERATING_CONTENT"]
                 /\ semitted' = Emit(semitted, j, "podcast.scraped")
                 /\ spc' = [spc EXCEPT ![j][SReq] = "done", ![j][SScr] = "queued"]
            ELSE /\ UNCHANGED <<sjobs, semitted>>
                 /\ SSetPc(j, SReq, "catch")
  /\ UNCHANGED <<jobCompletionTracker, sdialogue, sfiles>>
  /\ UNCHANGED tvars
  /\ UNCHANGED lvars

\* handlePodcastScraped: Promise.all of the two generation requests, then
\* the structure check; d = -1 is a dialogue without a segments array, and
\* an empty array passes the check
sGenerateJsonResponseReturns(j) ==
  /\ spc[j][SScr] = "queued"
  /\ \/ \E d \in (-1)..MaxSegs :
          IF d < 0
            THEN /\ UNCHANGED sdialogue
                 /\ SSetPc(j, SScr, "catch")
            ELSE /\ sdialogue' = [sdialogue EXCEPT ![j] = d]
                 /\ SSetPc(j, SScr, "persist")
     \/ /\ UNCHANGED sdialogue
        /\ SSetPc(j, SScr, "catch")
  /\ UNCHANGED <<sjobs, jobCompletionTracker, sfiles, semitted, dbFaults>>
  /\ UNCHANGED tvars
  /\ UNCHANGED lvars

\* handlePodcastScraped: UPDATE summary, transcript, status GENERATING_AUDIO,
\* then emit content_generated
sPersistContent(j) ==
  /\ spc[j][SScr] = "persist"
  /\ \E ok \in DbOutcomes :
       /\ DbCount(ok)
       /\ IF ok
            THEN /\ sjobs' = [sjobs EXCEPT ![j].status = "GENERATING_AUDIO",
                                           ![j].hasContent = TRUE]
                 /\ semitted' = Emit(semitted, j, "podcast.content_generated")
                 /\ spc' = [spc EXCEPT ![j][SScr] = "done", ![j][SCon] = "queued"]
            ELSE /\ UNCHANGED <<sjobs, semitted>>
                 /\ SSetPc(j, SScr, "catch")
  /\ UNCHANGED <<jobCompletionTracker, sdialogue, sfiles>>
  /\ UNCHANGED tvars
  /\ UNCHANGED lvars

\* the failure UPDATE in a handler's catch block (or in the validation
\* branch of handleContentGenerated): status FAILED with the handler's
\* errorStep; when the UPDATE throws nothing is written
sCatch(j, h) ==
  /\ spc[j][h] = "catch"
  /\ \E ok \in DbOutcomes :
       /\ DbCount(ok)
       /\ sjobs' = IF ok
                     THEN [sjobs EXCEPT ![j].status = "FAILED",
                                        ![j].errorStep = SErrorStep(h),
                                        ![j].errorMessage = <<h[1], h[2]>>]
                     ELSE sjobs
       /\ SSetPc(j, h, IF ok THEN "failed" ELSE "failedNoWrite")
  \* the finalization catch block also removes the temporary directory
  /\ sfiles' = IF h[1] = "gen" THEN [sfiles EXCEPT ![j] = EmptyBufs] ELSE sfiles
  /\ UNCHANGED <<jobCompletionTracker, sdialogue, semitted>>
  /\ UNCHANGED tvars
  /\ UNCHANGED lvars

\* segmentsMissingOrEmpty without the length test
segmentsMissing(d) == d < 0

\* if (!Array.isArray(segments) || segments.length === 0)
segmentsMissingOrEmpty(d) == d <= 0

\* handleContentGenerated: the validation branch marks the job FAILED; else
\* UPDATE jobMetadata and emit one audio_requested event per segment
sHandleContentGenerated(j) ==
  /\ spc[j][SCon] = "queued"
  /\ IF segmentsMissingOrEmpty(sdialogue[j])
       THEN /\ SSetPc(j, SCon, "catch")
            /\ UNCHANGED <<sjobs, semitted, dbFaults>>
       ELSE \E ok \in DbOutcomes :
              /\ DbCount(ok)
              /\ IF ok
                   THEN /\ sjobs' =
                             [sjobs EXCEPT ![j].totalSegments = sdialogue[j]]
                        /\ semitted' =
                             [semitted EXCEPT
                                ![j]["podcast.segment.audio_requested"] =
                                  @ + sdialogue[j]]
                        /\ spc' = [spc EXCEPT ![j] =
                                     [h \in SHandlerIds |->
                                        IF h = SCon THEN "done"
                                        ELSE IF h[1] = "seg" /\ h[2] < sdialogue[j]
                                          THEN "queued"
                                        ELSE spc[j][h]]]
                   ELSE /\ UNCHANGED <<sjobs, semitted>>
                        /\ SSetPc(j, SCon, "catch")
  /\ UNCHANGED <<jobCompletionTracker, sdialogue, sfiles>>
  /\ UNCHANGED tvars
  /\ UNCHANGED lvars

\* handleSegmentAudioRequested: the voice is chosen from the payload's
\* segmentSpeaker and generateSpeech(segmentText, {voice}) settles
sGenerateSpeechReturns(j, i) ==
  /\ spc[j][SSeg(i)] = "queued"
  /\ \E segmentSpeaker \in SpeakerLabels,
        name \in (IF sprovider = "unset" THEN ProviderNames ELSE {sprovider}),
        providerResult \in {"audio", "error"} :
       LET voice == voiceFor(segmentSpeaker)
           settled == generateSpeech(<<[voice |-> voice]>>, name, providerResult)
       IN
       /\ sprovider' = name
       /\ stts' = [stts EXCEPT ![j][i] =
                     [called |-> TRUE, segmentSpeaker |-> segmentSpeaker,
                      voice |-> voice, providerResult |-> providerResult,
                      settled |-> settled]]
       /\ SSetPc(j, SSeg(i), IF settled = "audio" THEN "writeFile" ELSE "catch")
  /\ UNCHANGED <<sjobs, jobCompletionTracker, sdialogue, sfiles, semitted,
                 dbFaults>>
  /\ UNCHANGED lvars

\* handleSegmentAudioRequested: mkdir and writeFile done (or thrown), then
\* emit audio_generated
sWriteFileReturns(j, i) ==
  /\ spc[j][SSeg(i)] = "writeFile"
  /\ \E r \in {"ok", "err"} :
       IF r = "ok"
         THEN /\ sfiles' = [sfiles EXCEPT ![j] = Put(@, i, AudioOf(j, i))]
              /\ semitted' = Emit(semitted, j, "podcast.segment.audio_generated")
              /\ spc' = [spc EXCEPT ![j][SSeg(i)] = "done",
                                    ![j][SGen(i)] = "queued"]
         ELSE /\ UNCHANGED <<sfiles, semitted>>
              /\ SSetPc(j, SSeg(i), "catch")
  /\ UNCHANGED <<sjobs, jobCompletionTracker, sdialogue, dbFaults>>
  /\ UNCHANGED tvars
  /\ UNCHANGED lvars

\* the tracker update: completedCount += 1 on the given state, Map.set, and
\* on the last count Map.delete; returns the Map
TrackerUpdate(tracker, j, currentState) ==
  IF currentState.completedCount + 1 # currentState.totalSegments
    THEN [tracker EXCEPT ![j] =
            [currentState EXCEPT !.completedCount = @ + 1]]
    ELSE [tracker EXCEPT ![j] = NoState]

\* handleSegmentAudioGenerated from its start: Map.get; with an entry the
\* update runs at once, without one the handler awaits getUserIdForJob
sHandleSegmentAudioGenerated(j, i) ==
  /\ spc[j][SGen(i)] = "queued"
  /\ LET currentState == jobCompletionTracker[j] IN
     IF currentState.present
       THEN /\ jobCompletionTracker' =
                 TrackerUpdate(jobCompletionTracker, j, currentState)
            /\ SSetPc(j, SGen(i),
                 IF currentState.completedCount + 1 = currentState.totalSegments
                   THEN "readFiles" ELSE "done")
       ELSE /\ UNCHANGED jobCompletionTracker
            /\ SSetPc(j, SGen(i), "getUserIdForJob")
  /\ UNCHANGED <<sjobs, sdialogue, sfiles, semitted, dbFaults>>
  /\ UNCHANGED tvars
  /\ UNCHANGED lvars

\* handleSegmentAudioGenerated after getUserIdForJob (which returns undefined
\* when its query throws): a fresh state with completedCount 0 is counted
\* and put into the Map, whatever the Map holds by now
sLazyInit(j, i) ==
  /\ spc[j][SGen(i)] = "getUserIdForJob"
  /\ \E ok \in DbOutcomes : DbCount(ok)
  /\ LET currentState ==
           [present |-> TRUE, completedCount |-> 0,
            totalSegments |-> sdialogue[j]] IN
     /\ jobCompletionTracker' =
          TrackerUpdate(jobCompletionTracker, j, currentState)
     /\ SSetPc(j, SGen(i),
          IF currentState.completedCount + 1 = currentState.totalSegments
            THEN "readFiles" ELSE "done")
  /\ UNCHANGED <<sjobs, sdialogue, sfiles, semitted>>
  /\ UNCHANGED tvars
  /\ UNCHANGED lvars

\* finalization: read the segment files 0..N-1, stitch, saveAudioToDatabase
sReadAndSave(j, i) ==
  /\ spc[j][SGen(i)] = "readFiles"
  /\ LET n == sdialogue[j] IN
     IF \E k \in 0..(n - 1) : k \notin DOMAIN sfiles[j]
       THEN /\ SSetPc(j, SGen(i), "catch")
            /\ UNCHANGED <<sjobs, dbFaults>>
       ELSE \E ok \in DbOutcomes :
              /\ DbCount(ok)
              /\ IF ok
                   THEN /\ sjobs' =
                             [sjobs EXCEPT ![j].audioData =
                                BufferConcat([k \in 1..n |-> sfiles[j][k - 1]])]
                        /\ SSetPc(j, SGen(i), "complete")
                   ELSE /\ UNCHANGED sjobs
                        /\ SSetPc(j, SGen(i), "catch")
  /\ UNCHANGED <<jobCompletionTracker, sdialogue, sfiles, semitted>>
  /\ UNCHANGED tvars
  /\ UNCHANGED lvars

\* finalization: UPDATE status COMPLETED, emit completed, remove the
\* temporary directory
sComplete(j, i) ==
  /\ spc[j][SGen(i)] = "complete"
  /\ \E ok \in DbOutcomes :
       /\ DbCount(ok)
       /\ IF ok
            THEN /\ sjobs' = [sjobs EXCEPT ![j].status = "COMPLETED",
                                           ![j].errorStep = "null",
                                           ![j].errorMessage = <<"null", 0>>]
                 /\ semitted' = Emit(semitted, j, "podcast.completed")
                 /\ sfiles' = [sfiles EXCEPT ![j] = EmptyBufs]
                 /\ SSetPc(j, SGen(i), "completed")
            ELSE /\ UNCHANGED <<sjobs, semitted, sfiles>>
                 /\ SSetPc(j, SGen(i), "catch")
  /\ UNCHANGED <<jobCompletionTracker, sdialogue>>
  /\ UNCHANGED tvars
  /\ UNCHANGED lvars

NextS ==
  \/ \E j \in SJobs : sRequestPodcastCreation(j)
  \/ \E j \in SJobs : sHandlePodcastRequested(j)
  \/ \E j \in SJobs : sScrapeUrlReturns(j)
  \/ \E j \in SJobs : sSetGeneratingContent(j)
  \/ \E j \in SJobs : sGenerateJsonResponseReturns(j)
  \/ \E j \in SJobs : sPersistContent(j)
  \/ \E j \in SJobs, h \in SHandlerIds : sCatch(j, h)
  \/ \E j \in SJobs : sHandleContentGenerated(j)
  \/ \E j \in SJobs, i \in SegIdx : sGenerateSpeechReturns(j, i)
  \/ \E j \in SJobs, i \in SegIdx : sWriteFileReturns(j, i)
  \/ \E j \in SJobs, i \in SegIdx : sHandleSegmentAudioGenerated(j, i)
  \/ \E j \in SJobs, i \in SegIdx : sLazyInit(j, i)
  \/ \E j \in SJobs, i \in SegIdx : sReadAndSave(j, i)
  \/ \E j \in SJobs, i \in SegIdx : sComplete(j, i)

SpecS == Init /\ [][NextS]_vars


\* ============================================ claims, single-class pipeline
\* the audio_generated handlers of job j that have done their tracker update
Handled(j) ==
  {i \in SegIdx : spc[j][SGen(i)] \notin {"idle", "queued", "getUserIdForJob"}}

\* the audio_generated handlers of job j that went on to assembly
Assembling(j) ==
  {i \in SegIdx :
     spc[j][SGen(i)] \in
       {"readFiles", "complete", "completed", "catch", "failed", "failedNoWrite"}}

\* C2 as claimed: after k handled events the job's completedCount is k, and
\* the N-th handled event, and no other, starts assembly.
C2_CountEqualsHandled ==
  \A j \in SJobs :
    sdialogue[j] >= 1 =>
      LET k == Cardinality(Handled(j)) IN
      /\ jobCompletionTracker[j].present =>
           jobCompletionTracker[j].completedCount = k
      /\ k < sdialogue[j] => Assembling(j) = {}
      /\ k = sdialogue[j] => Cardinality(Assembling(j)) = 1

SQuiescent(j) ==
  \A h \in SHandlerIds :
    spc[j][h] \in {"idle", "done", "completed", "failed", "failedNoWrite"}

\* C25 as claimed: once a segment's synthesis failure has marked the job
\* FAILED and every handler of the job has returned, the job has no
\* completion-tracker entry and no temporary segment file.
C25_NothingLeftAfterSegmentFailure ==
  \A j \in SJobs :
    ( /\ \E i \in SegIdx : spc[j][SSeg(i)] = "failed"
      /\ sjobs[j].status = "FAILED"
      /\ SQuiescent(j) ) =>
      /\ ~jobCompletionTracker[j].present
      /\ sfiles[j] = EmptyBufs


\* the labels of the model that name the first host
FirstHostLabels ==
  {Label(<<"H", "o", "s", "t", " ", "1">>),
   Label(<<"H", "O", "S", "T", " ", "1">>)}

\* the providers TtsService has a voice mapping for
MappedProviders == {"openai", "azure", "google"}

ActiveProviders == IF sprovider = "unset" THEN {} ELSE {sprovider}

\* C38 as claimed: with the service running, whenever the requested voice
\* is none of the application's voices, or the active provider is none
\* with a voice mapping, generateSpeech rejects with a TtsError and does
\* not call the provider.
C38_UnmappedVoiceRejected ==
  \A name \in ActiveProviders : \A voice \in RequestedVoices :
    \A providerResult \in {"audio", "error"} :
      (voice \notin AppVoices \/ name \notin MappedProviders) =>
        /\ generateSpeech(<<[voice |-> voice]>>, name, providerResult) = "TtsError"
        /\ ~callsProvider(<<[voice |-> voice]>>, name)

====
